---- MODULE Spec2Model ----
(***************************************************************************)
(* The local tool-invocation bridge of effective-giggle:                   *)
(*   - the MCP server (mcp_server/server.py): the registry _tools, filled  *)
(*     by _register_tools, and the handlers handle_list_tools and          *)
(*     handle_call_tool;                                                   *)
(*   - the client (mcp_server/client.py): EffectiveGiggleMCPClient with    *)
(*     connect, disconnect, list_tools, call_tool, _refresh_tools_cache;   *)
(*   - the context-aware tool filter (pipeline_agents.py).                 *)
(*                                                                         *)
(* One client object is used by the caller tasks of Tasks.  Every `await`  *)
(* of the client code is a suspension point: an operation is split into    *)
(* one action per stretch of code between two awaits, and pc[t] names the  *)
(* await task t is suspended at.                                           *)
(*                                                                         *)
(* Text (messages, wire payloads) is a sequence of tokens; an f-string is  *)
(* the concatenation of its parts.  A Python value is a record             *)
(* [type, v] with v the tokens of its content.                             *)
(*                                                                         *)
(* The mcp library (ClientSession, stdio_client, the low-level Server) is  *)
(* not part of the repository.  What it may do is an environment choice:   *)
(* an awaited library call returns or raises, and an exception raised by   *)
(* a server handler reaches the client either as a result object flagged   *)
(* isError whose content is the exception text, or as a raised error.      *)
(***************************************************************************)
EXTENDS Naturals, Sequences, FiniteSets

\* ------------------------------------------------------------------ bounds

\* Client operations one task starts.
MaxOps == 2

\* Invocations of one tool body that are counted.
MaxCalls == 1

\* The caller tasks that share the one client object.
Tasks == { "task1", "task2" }

\* ------------------------------------------------------------ the catalog

\* The tools register_notion_tools exports, in the order of its dict.
register_notion_tools ==
    << "select_topic_from_backlog", "update_topic_status",
       "query_topics_by_status", "create_research_page" >>

\* The tool names a caller asks for: registered or not, allowed or not.
RequestedNames == { "select_topic_from_backlog", "create_research_page", "web_search" }

\* The agent types a connection's filter is created for.
AgentTypes == { "topic_selector", "researcher" }

\* The names that occur anywhere.
ToolUniverse ==
    { register_notion_tools[i] : i \in 1 .. Len(register_notion_tools) }
        \cup RequestedNames

Range(s) == { s[i] : i \in 1 .. Len(s) }

\* The entry register_notion_tools registers under a name: its keys, its
\* description and its schema (the schema as the text of its JSON members).
tool_impl(name) ==
    CASE name = "select_topic_from_backlog" ->
           [keys |-> { "function", "description", "schema" },
            description |->
                << "Select a topic from the backlog and promote it to candidate status" >>,
            schema |->
                << "type: object", "properties: {}", "required: []",
                   "description: No parameters required. Selects the first available backlog topic." >>]
      [] name = "update_topic_status" ->
           [keys |-> { "function", "description", "schema" },
            description |->
                << "Update the status of a specific topic in the database" >>,
            schema |->
                << "type: object",
                   "properties: {topic_id: string, new_status: string enum}",
                   "required: [topic_id, new_status]" >>]
      [] name = "query_topics_by_status" ->
           [keys |-> { "function", "description", "schema" },
            description |->
                << "Query topics from the database filtered by their current status" >>,
            schema |->
                << "type: object",
                   "properties: {status: string enum, limit: integer 1..100 default 10}",
                   "required: [status]" >>]
      [] name = "create_research_page" ->
           [keys |-> { "function", "description", "schema" },
            description |->
                << "Create a child page under a topic with research results" >>,
            schema |->
                << "type: object",
                   "properties: {topic_id: string, research_data: string}",
                   "required: [topic_id, research_data]" >>]
      [] OTHER -> [keys |-> { }, description |-> << >>, schema |-> << >>]

\* tool_impl.get("description", f"Tool: {tool_name}").
Description(name) ==
    IF "description" \in tool_impl(name).keys THEN tool_impl(name).description
    ELSE << "Tool: ", name >>

\* tool_impl.get("schema", {"type": "object", "properties": {}, "required": []}).
Schema(name) ==
    IF "schema" \in tool_impl(name).keys THEN tool_impl(name).schema
    ELSE << "type: object", "properties: {}", "required: []" >>

\* The agent types a filter can be created for: agent_type is any string, an
\* unspecified role being the empty string or the text of None.
FilterAgentTypes == AgentTypes \cup { "unknown", "", "None" }

\* context.agent.name of the agents that pipeline_agents.py creates.
AgentNames == { "TopicSelector", "Researcher" }

\* The tool names a filter is asked about.
FilterNames == ToolUniverse \cup { "search_news", "extract_content" }

\* The default of the filter allows.
tool_filterRolesMutant(agentType, name) ==
    IF agentType = "topic_selector"
    THEN name \in { "select_topic_from_backlog", "update_topic_status",
                    "query_topics_by_status" }
    ELSE IF agentType = "researcher"
    THEN name \in { "web_search", "search_news", "extract_content",
                    "create_research_page", "update_topic_status",
                    "select_topic_from_backlog" }
    ELSE FALSE

tool_filterMutant(agentType, name) ==
    IF agentType = "topic_selector"
    THEN name \in { "select_topic_from_backlog", "update_topic_status",
                    "query_topics_by_status" }
    ELSE IF agentType = "researcher"
    THEN name \in { "web_search", "search_news", "extract_content",
                    "create_research_page", "update_topic_status" }
    ELSE TRUE

\* create_context_aware_tool_filter(agent_type)(context, tool).
tool_filter(agentType, name) ==
    IF agentType = "topic_selector"
    THEN name \in { "select_topic_from_backlog", "update_topic_status",
                    "query_topics_by_status" }
    ELSE IF agentType = "researcher"
    THEN name \in { "web_search", "search_news", "extract_content",
                    "create_research_page", "update_topic_status" }
    ELSE FALSE

\* The remote calls that the tool bodies make, each with the module and the
\* body it is in, its line, and its timeout argument in seconds (0: none):
\* requests.post/patch(..., timeout=), asyncio.wait_for(..., timeout=) around
\* the Exa call, aiohttp.ClientTimeout(total=) of the session that gets a page.
RemoteCalls ==
    { [module |-> "mcp_server/tools/notion_tools.py",
       body |-> "select_topic_from_backlog", line |-> 86, timeout |-> 4],
      [module |-> "mcp_server/tools/notion_tools.py",
       body |-> "update_topic_status", line |-> 148, timeout |-> 4],
      [module |-> "mcp_server/tools/notion_tools.py",
       body |-> "query_topics_by_status", line |-> 203, timeout |-> 4],
      [module |-> "mcp_server/tools/notion_tools.py",
       body |-> "create_research_page", line |-> 620, timeout |-> 4],
      [module |-> "mcp_server/tools/search_tools.py",
       body |-> "web_search", line |-> 105, timeout |-> 4],
      [module |-> "mcp_server/tools/search_tools.py",
       body |-> "extract_content", line |-> 199, timeout |-> 4],
      [module |-> "mcp_server/tools/search_tools.py",
       body |-> "search_news", line |-> 321, timeout |-> 4],
      [module |-> "mcp_server/tools/search_tools.py",
       body |-> "find_similar", line |-> 394, timeout |-> 4],
      [module |-> "tools/notion_db.py",
       body |-> "select_topic_from_backlog", line |-> 59, timeout |-> 30],
      [module |-> "tools/notion_db.py",
       body |-> "select_topic_from_backlog", line |-> 89, timeout |-> 30] }

\* The end-to-end budget of one request, in seconds ("MCP 5s limit").
RequestBudget == 5

\* ------------------------------------------------------- values and text

\* What a tool body returns: a mapping, a string (plain, or one that reads as
\* JSON), an ordered list (of topics, or empty: no topic has the status) ...
BodyResults ==
    { [type |-> "dict", v |-> << "topic" >>],
      [type |-> "str",  v |-> << "plain text" >>],
      [type |-> "str",  v |-> << "{", "topic", "}" >>],
      [type |-> "list", v |-> << "topic" >>],
      [type |-> "list", v |-> << >>] }

\* ... or the message of the exception it raises.
BodyErrors == { << "Notion API error" >> }

\* The parameters of each registered tool's function: those a call must pass
\* and those with a default.
Parameters(name) ==
    CASE name = "select_topic_from_backlog"
           -> [required |-> { }, optional |-> { }]
      [] name = "update_topic_status"
           -> [required |-> { "topic_id", "new_status" }, optional |-> { }]
      [] name = "query_topics_by_status"
           -> [required |-> { "status" }, optional |-> { "limit" }]
      [] name = "create_research_page"
           -> [required |-> { "topic_id", "research_data" }, optional |-> { }]
      [] OTHER -> [required |-> { }, optional |-> { }]

\* The argument names a call of call_mcp_tool passes for a tool: those the
\* tool's function requires, or none.  (The callers of the client alone pass
\* the required ones.)
RequestedArguments(name) == { Parameters(name).required, { } }

\* Every call binds.
BindsMutant(name, arguments) == TRUE

\* tool_function(**arguments) binds: every required parameter is passed and
\* every argument names a parameter; else Python raises TypeError at the
\* call, before the first statement of the body.
Binds(name, arguments) ==
    /\ Parameters(name).required \subseteq arguments
    /\ arguments \subseteq Parameters(name).required \cup Parameters(name).optional

\* The TypeError of a call that does not bind.
TypeErrorText(name) == << name, "() got unexpected or missing arguments" >>

\* json.dumps(result, indent=2) of a mapping.
json_dumps(value) == << "{" >> \o value.v \o << "}" >>

\* str(result) of a value that is neither a mapping nor a string: the repr,
\* which quotes the strings of a list with apostrophes.
str(value) ==
    IF value.type = "list"
    THEN IF value.v = << >> THEN << "[]" >> ELSE << "['" >> \o value.v \o << "']" >>
    ELSE value.v

\* Whether json.loads accepts the text (else it raises JSONDecodeError).
IsJson(text) ==
    \/ text = << "[]" >>
    \/ /\ Len(text) >= 2
       /\ \/ text[1] = "{" /\ text[Len(text)] = "}"
          \/ text[1] = "[\"" /\ text[Len(text)] = "\"]"

\* json.loads(text) of a text it accepts.
json_loads(text) ==
    [type |-> IF text[1] = "{" THEN "dict" ELSE "list",
     v    |-> SubSeq(text, 2, Len(text) - 1)]

NoValue == [type |-> "None", v |-> << >>]

\* ------------------------------------------------------------------ state

VARIABLES
    agent_type,       \* the agent type the connection's tool filter is made for
    server,           \* the server process of the connection: "none", "running"
    _tools,           \* server.py: the registry, its keys in insertion order
    calls,            \* per tool name, how often its body was invoked
    session,          \* client.session: "None", or the ClientSession's stage
    _stdio_context,   \* client._stdio_context: "None", "created", "entered"
    _read_stream,     \* client._read_stream: "None", "stream"
    _write_stream,    \* client._write_stream: "None", "stream"
    _tools_cache,     \* client._tools_cache: [isNone, list, of]
    pc,               \* per task, the await it is suspended at, or "idle"
    cur,              \* per task, the client operation it is in
    req,              \* per task, the request its session call has sent
    resp,             \* per task, the server's answer to that request
    ret,              \* how the client operation that has just ended, ended
    ops,              \* per task, the operations it has started
    scope,            \* the `async with client:` block in progress
    agent,            \* the BaseAgent whose arun() uses the client
    notion,           \* the Notion topics database, and what was selected
    selector,         \* per server process, the tool body it is running
    handoff           \* main.py: the on_research_handoff in progress

vars ==
    << agent_type, server, _tools, calls, session, _stdio_context, _read_stream,
       _write_stream, _tools_cache, pc, cur, req, resp, ret, ops, scope, agent,
       notion, selector, handoff >>

\* The state of the pipeline around the client: the database, the tool
\* bodies of the server processes, and the handoff.
pipelineVars == << notion, selector, handoff >>

serverVars == << server, _tools >>

clientVars == << session, _stdio_context, _read_stream, _write_stream, _tools_cache >>

\* name, tool and error are the operation, its tool_name and the error its
\* except block caught; after records the operation that ended in the step
\* before this one began ("first": none began before it); refresh is the
\* refresh_cache argument of list_tools; during records the tasks whose
\* call_tool was waiting for its answer when a disconnect() began.
NoOp ==
    [name |-> "none", tool |-> "none", error |-> << >>, after |-> "none",
     refresh |-> FALSE, during |-> { }]

\* kind, tool and init are the request and whether the session it was sent on
\* had completed its handshake; closed records that this session has been
\* closed since.
NoReq ==
    [kind |-> "none", tool |-> "none", arguments |-> { }, init |-> FALSE,
     closed |-> FALSE]

\* kind, raised, text and tools are the answer; invoked, result and error record
\* what the handling did: whether it called the tool's function, and what the
\* function returned or raised.
NoResp ==
    [kind |-> "none", raised |-> FALSE, text |-> << >>, tools |-> << >>,
     invoked |-> FALSE, result |-> NoValue, error |-> << >>]

NoRet ==
    [task |-> "none", op |-> "none", kind |-> "none", msg |-> << >>,
     value |-> NoValue, tools |-> << >>, refresh |-> FALSE, timeout |-> 0]

\* isNone and list are the value of the attribute; of records the session whose
\* _refresh_tools_cache assigned it: "current", or "previous" once that
\* session has been closed ("none": the attribute is None).
CacheNone == [isNone |-> TRUE, list |-> << >>, of |-> "none"]

\* The `async with` block: the task that runs it, its stage ("enter": in
\* __aenter__, "body", "exit": in __aexit__, "ended": it has ended in the step
\* just taken), and the exception its body raised (empty: none), which leaves
\* the block when __aexit__ has returned None.
NoScope == [task |-> "none", stage |-> "none", exc |-> << >>]

\* The topics of the database in the order a query returns them, the
\* statuses a topic goes through, and the server processes (one per
\* connection) that run tool bodies on the one database.
Topics == << "topic1", "topic2" >>

Statuses == { "Backlog", "Candidate", "Research" }

Sessions == { "session1", "session2" }

\* status is the Status property of each page; returned collects the page
\* ids that select_topic_from_backlog has returned.
NoNotion ==
    [status |-> [p \in Range(Topics) |-> "Backlog"], returned |-> { }]

\* The tool body a server process runs: where it is ("idle", or "patch":
\* select_topic_from_backlog between its query and its update), the page it
\* selected, the sum of the timeouts of the remote calls the body has made,
\* the pages that other processes' selections returned while it ran, and
\* how many bodies the process has run.
NoSelector ==
    [pc |-> "idle", topic |-> "none", timeouts |-> 0, rivals |-> { }, n |-> 0]

\* on_research_handoff: where it is ("none", "running": in Runner.run,
\* "ended"), the researcher's MCP server connection, how it ended, and how
\* many handoffs there have been.
NoHandoff == [stage |-> "none", server |-> "None", result |-> "none", n |-> 0]

\* BaseAgent: the task that runs arun() and where it is ("none": not in
\* arun; "connecting": awaiting connect(); "connected": before list_tools()
\* has returned; "running": in Runner.run; "disconnecting": awaiting
\* disconnect() in the finally block), the attributes _mcp_client and
\* _mcp_tools, how many times arun() has been called, and how the last
\* Runner.run ended.
NoAgent ==
    [task |-> "none", stage |-> "none", _mcp_client |-> "None",
     _mcp_tools |-> << >>, runs |-> 0, outcome |-> "none"]

\* What the body of the block raises, if it raises.
BodyExceptions == { << "body failed" >> }

\* No client operation ends in this step.
Silent == ret' = NoRet

\* The block follows the operation that ends in this step: the connect() of
\* __aenter__ returns (the body begins) or raises (there is no block), the
\* disconnect() of __aexit__ returns (the block has ended).
ScopeFollows ==
    scope' =
        IF scope.stage = "ended" THEN NoScope
        ELSE IF scope.stage = "enter" /\ ret'.task = scope.task /\ ret'.op = "connect"
        THEN IF ret'.kind = "return" THEN [scope EXCEPT !.stage = "body"] ELSE NoScope
        ELSE IF scope.stage = "exit" /\ ret'.task = scope.task
                /\ ret'.op = "disconnect"
        THEN [scope EXCEPT !.stage = "ended"]
        ELSE scope

\* The failure leaves arun().
ConnectFailedMutant(a) ==
    [a EXCEPT !.stage = "none", !._mcp_client = "None", !._mcp_tools = << >>,
              !.outcome = "raise"]

\* _connect_to_mcp_server's except block: the client is dropped and the run
\* goes on with the function tools.
ConnectFailed(a) ==
    [a EXCEPT !.stage = "running", !._mcp_client = "None", !._mcp_tools = << >>]

\* The finally block of _disconnect_from_mcp_server, and arun's end.
Dropped(a) ==
    [a EXCEPT !.stage = "none", !._mcp_client = "None", !._mcp_tools = << >>]

\* arun() goes on when the client operation it awaits has ended.
AgentFollows ==
    agent' =
        IF agent.stage = "none" \/ ret'.task # agent.task THEN agent
        ELSE IF agent.stage = "connecting" /\ ret'.op = "connect"
        THEN IF ret'.kind = "return" THEN [agent EXCEPT !.stage = "connected"]
             ELSE ConnectFailed(agent)
        ELSE IF agent.stage = "connected" /\ ret'.op = "list_tools"
        THEN IF ret'.kind = "return"
             THEN [agent EXCEPT !.stage = "running", !._mcp_tools = ret'.tools]
             ELSE ConnectFailed(agent)
        ELSE IF agent.stage = "disconnecting" /\ ret'.op = "disconnect"
        THEN Dropped(agent)
        ELSE agent

\* EffectiveGiggleMCPClient.__init__, with no server process spawned yet and
\* the registry of the module empty.
Fresh ==
    /\ server = "none"
    /\ _tools = << >>
    /\ calls = [n \in ToolUniverse |-> 0]
    /\ session = "None"
    /\ _stdio_context = "None"
    /\ _read_stream = "None"
    /\ _write_stream = "None"
    /\ _tools_cache = CacheNone
    /\ pc = [t \in Tasks |-> "idle"]
    /\ cur = [t \in Tasks |-> NoOp]
    /\ req = [t \in Tasks |-> NoReq]
    /\ resp = [t \in Tasks |-> NoResp]
    /\ ret = NoRet
    /\ ops = [t \in Tasks |-> 0]
    /\ scope = NoScope
    /\ agent = NoAgent
    /\ notion = NoNotion
    /\ selector = [s \in Sessions |-> NoSelector]
    /\ handoff = NoHandoff

Init ==
    /\ agent_type \in AgentTypes
    /\ Fresh

\* ----------------------------------------------------------------- server

\* A disconnect() is suspended in `await self.session.__aexit__(...)`: the
\* session has stopped receiving.
SessionClosing == \E u \in Tasks : pc[u] = "d_session"

\* _register_tools: _tools.update(notion_tools) on the empty registry of a
\* fresh process.
_register_tools(registry) ==
    registry \o SelectSeq(register_notion_tools, LAMBDA n : n \notin Range(registry))

\* The tools are listed last registered first.
ListedToolsMutant(registry) ==
    [i \in 1 .. Len(registry) |->
        [name |-> registry[Len(registry) + 1 - i],
         description |-> Description(registry[Len(registry) + 1 - i]),
         inputSchema |-> Schema(registry[Len(registry) + 1 - i])]]

\* The list handle_list_tools returns: one Tool per registry entry.
ListedTools(registry) ==
    [i \in 1 .. Len(registry) |->
        [name |-> registry[i],
         description |-> Description(registry[i]),
         inputSchema |-> Schema(registry[i])]]

\* The handler empties the registry as it lists it.
handle_list_toolsMutant(t) ==
    /\ req[t].kind = "list"
    /\ req[t].init
    /\ ~ req[t].closed
    /\ resp[t].kind = "none"
    /\ server = "running"
    /\ session # "None"
    /\ ~ SessionClosing
    /\ resp' = [resp EXCEPT ![t] =
                    [NoResp EXCEPT !.kind = "tools", !.tools = ListedTools(_tools)]]
    /\ _tools' = << >>
    /\ Silent
    /\ ScopeFollows
    /\ AgentFollows
    /\ UNCHANGED pipelineVars
    /\ UNCHANGED << agent_type, server, calls, clientVars, pc, cur, req, ops >>

\* handle_list_tools, answering the tool-list request of task t.  The answer
\* reaches the waiting call through the session, as long as the client holds one
\* that is not being closed.
handle_list_tools(t) ==
    /\ req[t].kind = "list"
    /\ req[t].init
    /\ ~ req[t].closed
    /\ resp[t].kind = "none"
    /\ server = "running"
    /\ session # "None"
    /\ ~ SessionClosing
    /\ resp' = [resp EXCEPT ![t] =
                    [NoResp EXCEPT !.kind = "tools", !.tools = ListedTools(_tools)]]
    /\ Silent
    /\ ScopeFollows
    /\ AgentFollows
    /\ UNCHANGED pipelineVars
    /\ UNCHANGED << agent_type, serverVars, calls, clientVars, pc, cur, req, ops >>

\* The ValueError of an unknown name.
NotFoundText(name, registry) ==
    << "Tool '", name, "' not found. Available tools: " >> \o registry

\* The ValueError that wraps what the body raised.
ExecutionFailedText(error) == << "Tool execution failed: " >> \o error

\* Every result is converted with str().
ContentTextMutant(result) == str(result)

\* The TextContent of a result.
ContentText(result) ==
    IF result.type = "dict" THEN json_dumps(result)
    ELSE IF result.type = "str" THEN result.v
    ELSE str(result)

\* The registry check left out.
NameUnknownMutant(name, registry) == FALSE

\* Whether handle_call_tool refuses the name before the try block.
NameUnknown(name, registry) == name \notin Range(registry)

\* Every tool body yields to the event loop.
SuspendsMutant(name) == TRUE

\* Whether `await tool_function(**arguments)` yields to the event loop of the
\* server before the body is over.  The bodies of notion_tools.py make their
\* remote calls with requests (blocking calls, no await that waits); the
\* bodies of search_tools.py await asyncio.wait_for(...) and aiohttp.
Suspends(name) == name \in { "web_search", "search_news", "extract_content" }

\* The answer of handle_call_tool when the body is over: the body returned one
\* of BodyResults or raised one of BodyErrors.
BodyOutcome(t) ==
    \/ \E result \in BodyResults :
          resp' = [resp EXCEPT ![t] =
                      [NoResp EXCEPT !.kind = "result", !.invoked = TRUE,
                                     !.result = result,
                                     !.text = ContentText(result)]]
    \/ \E error \in BodyErrors :
          resp' = [resp EXCEPT ![t] =
                      [NoResp EXCEPT !.kind = "result", !.raised = TRUE,
                                     !.invoked = TRUE, !.error = error,
                                     !.text = ExecutionFailedText(error)]]

\* handle_call_tool, answering the call request of task t: from its start to
\* its answer, or to the point where the body yields ("handling"), and from
\* there to its answer.
handle_call_tool(t) ==
    /\ req[t].kind = "call"
    /\ req[t].init
    /\ ~ req[t].closed
    /\ server = "running"
    /\ session # "None"
    /\ ~ SessionClosing
    /\ LET name == req[t].tool IN
       \/ /\ resp[t].kind = "none"
          /\ NameUnknown(name, _tools)
          /\ resp' = [resp EXCEPT ![t] =
                [NoResp EXCEPT !.kind = "result", !.raised = TRUE,
                               !.text = NotFoundText(name, _tools)]]
          /\ UNCHANGED calls
       \/ /\ resp[t].kind = "none"
          /\ ~ NameUnknown(name, _tools)
          /\ ~ Binds(name, req[t].arguments)
          /\ resp' = [resp EXCEPT ![t] =
                [NoResp EXCEPT !.kind = "result", !.raised = TRUE,
                               !.invoked = TRUE, !.error = TypeErrorText(name),
                               !.text = ExecutionFailedText(TypeErrorText(name))]]
          /\ UNCHANGED calls
       \/ /\ resp[t].kind = "none"
          /\ ~ NameUnknown(name, _tools)
          /\ Binds(name, req[t].arguments)
          /\ calls[name] < MaxCalls
          /\ calls' = [calls EXCEPT ![name] = @ + 1]
          /\ IF Suspends(name)
             THEN resp' = [resp EXCEPT ![t] =
                              [NoResp EXCEPT !.kind = "handling", !.invoked = TRUE]]
             ELSE BodyOutcome(t)
       \/ /\ resp[t].kind = "handling"
          /\ BodyOutcome(t)
          /\ UNCHANGED calls
    /\ Silent
    /\ ScopeFollows
    /\ AgentFollows
    /\ UNCHANGED pipelineVars
    /\ UNCHANGED << agent_type, serverVars, clientVars, pc, cur, req, ops >>

\* The session call of task t fails in the library: the transport is closed,
\* the server process is gone, or the server refuses a request that came
\* before the handshake.
TransportError(t) ==
    /\ req[t].kind # "none"
    /\ resp[t].kind = "none"
    /\ resp' = [resp EXCEPT ![t] =
                    [NoResp EXCEPT !.kind = "error", !.raised = TRUE,
                                   !.text = << "Connection closed" >>]]
    /\ Silent
    /\ ScopeFollows
    /\ AgentFollows
    /\ UNCHANGED pipelineVars
    /\ UNCHANGED << agent_type, serverVars, calls, clientVars, pc, cur, req, ops >>

\* ----------------------------------------------------------------- client

\* The awaited session call is treated as complete at any moment.
AnsweredMutant(response) == TRUE

\* The awaited session call (list_tools, call_tool) is complete: its answer, or
\* the error it raises, is there.
Answered(response) == response.kind \notin { "none", "handling" }

\* is_connected().
is_connected == session # "None"

\* `if not self.session:` at the head of list_tools and of call_tool.
NotConnected(theSession) == theSession = "None"

\* Tasks start connect and disconnect one at a time; list_tools and call_tool
\* may start at any moment, also while a connect or a disconnect is suspended.
LifecycleBusy == \E u \in Tasks : cur[u].name \in { "connect", "disconnect" }

\* The operation that the running `async with` block of task t still owes: the
\* disconnect() of its __aexit__.
Reserved(t) ==
    IF scope.task = t /\ scope.stage \in { "enter", "body" } THEN 1 ELSE 0

CanStart(t) == pc[t] = "idle" /\ ops[t] + Reserved(t) < MaxOps

NotConnectedText == << "Not connected to MCP server. Call connect() first." >>

\* The warning connect() logs when the client holds a session already.
AlreadyConnectedText == << "Client is already connected" >>

\* The operation of task t returns to its caller.
Returns(t, opName, value, tools) ==
    /\ pc' = [pc EXCEPT ![t] = "idle"]
    /\ cur' = [cur EXCEPT ![t] = NoOp]
    /\ ret' = [NoRet EXCEPT !.task = t, !.op = opName, !.kind = "return",
                            !.value = value, !.tools = tools]

\* The operation of task t raises Exception(msg) to its caller.
Raises(t, opName, msg) ==
    /\ pc' = [pc EXCEPT ![t] = "idle"]
    /\ cur' = [cur EXCEPT ![t] = NoOp]
    /\ ret' = [NoRet EXCEPT !.task = t, !.op = opName, !.kind = "raise", !.msg = msg]

\* disconnect() is over: a plain disconnect returns; the one connect() awaits
\* in its except block is followed by connect's raise.
DisconnectDone(t, opName, error) ==
    IF opName = "connect"
    THEN Raises(t, "connect", << "MCP connection failed: " >> \o error)
    ELSE Returns(t, "disconnect", NoValue, << >>)

\* The last statements of disconnect's try block.
ClearStreamsAndCache ==
    /\ _read_stream' = "None"
    /\ _write_stream' = "None"
    /\ _tools_cache' = CacheNone

\* The operation that ended in the step before this one, "first" when no
\* operation began before, else "none".
EndedJustBefore ==
    IF \A u \in Tasks : ops[u] = 0 THEN "first" ELSE ret.op

\* disconnect() up to its first await.
DisconnectStart(t, opName, error) ==
    IF session # "None"
    THEN /\ pc' = [pc EXCEPT ![t] = "d_session"]
         /\ cur' = [cur EXCEPT ![t] =
                       [NoOp EXCEPT !.name = opName, !.error = error,
                                    !.after = IF pc[t] = "idle" THEN EndedJustBefore
                                              ELSE cur[t].after,
                                    !.during = { u \in Tasks : pc[u] = "k_call" }]]
         /\ Silent
         /\ UNCHANGED clientVars
    ELSE IF _stdio_context # "None"
    THEN /\ pc' = [pc EXCEPT ![t] = "d_stdio"]
         /\ cur' = [cur EXCEPT ![t] =
                       [NoOp EXCEPT !.name = opName, !.error = error,
                                    !.after = IF pc[t] = "idle" THEN EndedJustBefore
                                              ELSE cur[t].after,
                                    !.during = { u \in Tasks : pc[u] = "k_call" }]]
         /\ Silent
         /\ UNCHANGED clientVars
    ELSE /\ ClearStreamsAndCache
         /\ UNCHANGED << session, _stdio_context >>
         /\ DisconnectDone(t, opName, error)

\* connect() up to `await self._stdio_context.__aenter__()`.
ConnectStartMutant(t) ==
    /\ CanStart(t)
    /\ ~ LifecycleBusy
    /\ ops' = [ops EXCEPT ![t] = @ + 1]
    /\ _stdio_context' = "created"
    /\ pc' = [pc EXCEPT ![t] = "c_spawn"]
    /\ cur' = [cur EXCEPT ![t] = [NoOp EXCEPT !.name = "connect"]]
    /\ Silent
    /\ UNCHANGED << session, _read_stream, _write_stream, _tools_cache >>
    /\ UNCHANGED << agent_type, serverVars, calls, req, resp >>

ConnectStart(t) ==
    /\ CanStart(t)
    /\ ~ LifecycleBusy
    /\ ops' = [ops EXCEPT ![t] = @ + 1]
    /\ IF session # "None"
       THEN /\ pc' = [pc EXCEPT ![t] = "idle"]
            /\ cur' = [cur EXCEPT ![t] = NoOp]
            /\ ret' = [NoRet EXCEPT !.task = t, !.op = "connect",
                                    !.kind = "return",
                                    !.msg = AlreadyConnectedText]
            /\ UNCHANGED clientVars
       ELSE /\ _stdio_context' = "created"
            /\ pc' = [pc EXCEPT ![t] = "c_spawn"]
            /\ cur' = [cur EXCEPT ![t] = [NoOp EXCEPT !.name = "connect"]]
            /\ Silent
            /\ UNCHANGED << session, _read_stream, _write_stream, _tools_cache >>
    /\ UNCHANGED << agent_type, serverVars, calls, req, resp >>

\* A caller's connect().
ConnectBegin(t) ==
    /\ ConnectStart(t)
    /\ ScopeFollows
    /\ AgentFollows
    /\ UNCHANGED pipelineVars

\* `async with client:` begins: __aenter__ awaits connect().
__aenter__(t) ==
    /\ scope.stage \in { "none", "ended" }
    /\ ops[t] + 1 < MaxOps
    /\ ConnectStart(t)
    /\ scope' = [NoScope EXCEPT !.task = t,
                                !.stage = IF ret'.op = "connect" THEN "body"
                                          ELSE "enter"]
    /\ UNCHANGED << agent, pipelineVars >>

\* The server process starts (run_server registers the tools) and connect()
\* runs to `await self.session.__aenter__()`, or the process cannot start
\* and connect() runs into its except block.
ConnectSpawn(t) ==
    /\ pc[t] = "c_spawn"
    /\ \/ /\ _stdio_context' = "entered"
          /\ server' = "running"
          /\ _tools' = _register_tools(<< >>)
          /\ _read_stream' = "stream"
          /\ _write_stream' = "stream"
          /\ session' = "new"
          /\ pc' = [pc EXCEPT ![t] = "c_enter"]
          /\ Silent
          /\ UNCHANGED << _tools_cache, cur >>
       \/ /\ DisconnectStart(t, "connect", << "server process cannot start" >>)
          /\ UNCHANGED serverVars
    /\ ScopeFollows
    /\ AgentFollows
    /\ UNCHANGED pipelineVars
    /\ UNCHANGED << agent_type, calls, req, resp, ops >>

\* `await self.session.__aenter__()` returns and connect() runs to
\* `await self.session.initialize()`, or it raises.
ConnectEnter(t) ==
    /\ pc[t] = "c_enter"
    /\ \/ /\ session' = "entered"
          /\ pc' = [pc EXCEPT ![t] = "c_init"]
          /\ Silent
          /\ UNCHANGED << _stdio_context, _read_stream, _write_stream, _tools_cache,
                          cur >>
       \/ DisconnectStart(t, "connect", << "session cannot be entered" >>)
    /\ ScopeFollows
    /\ AgentFollows
    /\ UNCHANGED pipelineVars
    /\ UNCHANGED << agent_type, serverVars, calls, req, resp, ops >>

\* The handshake completes and connect() runs into _refresh_tools_cache, to
\* `await self.session.list_tools()`; or the handshake fails.
ConnectInitialize(t) ==
    /\ pc[t] = "c_init"
    /\ \/ /\ session' = "initialized"
          /\ req' = [req EXCEPT ![t] = [NoReq EXCEPT !.kind = "list", !.init = TRUE]]
          /\ pc' = [pc EXCEPT ![t] = "c_list"]
          /\ Silent
          /\ UNCHANGED << _stdio_context, _read_stream, _write_stream, _tools_cache,
                          cur >>
       \/ /\ DisconnectStart(t, "connect", << "handshake failed" >>)
          /\ UNCHANGED req
    /\ ScopeFollows
    /\ AgentFollows
    /\ UNCHANGED pipelineVars
    /\ UNCHANGED << agent_type, serverVars, calls, resp, ops >>

\* The schema is left out of the dict.
tool_dictMutant(tool) ==
    [name |-> tool.name, description |-> tool.description, inputSchema |-> << >>]

\* tool_dict of _refresh_tools_cache: the dict made of a listed Tool.
tool_dict(tool) ==
    [name |-> tool.name, description |-> tool.description,
     inputSchema |-> tool.inputSchema]

\* The cache _refresh_tools_cache leaves when the request it sent is over: the
\* listed tools as dicts, or the empty list when the request raised.
RefreshedCache(request, response) ==
    [isNone |-> FALSE,
     list |-> IF response.kind = "tools"
              THEN [i \in 1 .. Len(response.tools) |-> tool_dict(response.tools[i])]
              ELSE << >>,
     of |-> IF request.closed THEN "previous" ELSE "current"]

\* get_tool_schema(tool_name), of the list that list_tools() returned: the
\* inputSchema of the first tool of that name, or None.
get_tool_schema(tools, tool_name) ==
    IF \E i \in 1 .. Len(tools) : tools[i].name = tool_name
    THEN tools[CHOOSE i \in 1 .. Len(tools) :
                   /\ tools[i].name = tool_name
                   /\ \A j \in 1 .. i - 1 : tools[j].name # tool_name].inputSchema
    ELSE << "None" >>

\* _refresh_tools_cache resumes in connect(), which then returns.
ConnectRefreshed(t) ==
    /\ pc[t] = "c_list"
    /\ Answered(resp[t])
    /\ _tools_cache' = RefreshedCache(req[t], resp[t])
    /\ req' = [req EXCEPT ![t] = NoReq]
    /\ resp' = [resp EXCEPT ![t] = NoResp]
    /\ Returns(t, "connect", NoValue, << >>)
    /\ ScopeFollows
    /\ AgentFollows
    /\ UNCHANGED pipelineVars
    /\ UNCHANGED << agent_type, serverVars, calls, session, _stdio_context,
                    _read_stream, _write_stream, ops >>

\* disconnect() up to its first await.
DisconnectBegin(t) ==
    /\ CanStart(t)
    /\ ~ LifecycleBusy
    /\ ops' = [ops EXCEPT ![t] = @ + 1]
    /\ DisconnectStart(t, "disconnect", << >>)
    /\ ScopeFollows
    /\ AgentFollows
    /\ UNCHANGED pipelineVars
    /\ UNCHANGED << agent_type, serverVars, calls, req, resp >>

\* The body of the `async with` block of task t ends, normally or by raising,
\* and __aexit__ awaits disconnect().
__aexit__(t) ==
    /\ scope.task = t
    /\ scope.stage = "body"
    /\ pc[t] = "idle"
    /\ ~ LifecycleBusy
    /\ ops' = [ops EXCEPT ![t] = @ + 1]
    /\ DisconnectStart(t, "disconnect", << >>)
    /\ \E exc \in BodyExceptions \cup { << >> } :
          scope' = [scope EXCEPT !.exc = exc,
                                 !.stage = IF ret'.op = "disconnect" THEN "ended"
                                           ELSE "exit"]
    /\ UNCHANGED << agent_type, serverVars, calls, req, resp, agent, pipelineVars >>

\* `await self.session.__aexit__(None, None, None)` returns and disconnect()
\* runs on, or it raises and disconnect() logs the error and returns.
DisconnectSession(t) ==
    /\ pc[t] = "d_session"
    /\ \/ /\ session' = "None"
          /\ req' = [u \in Tasks |->
                        IF req[u].kind = "none" THEN req[u]
                        ELSE [req[u] EXCEPT !.closed = TRUE]]
          /\ IF _stdio_context # "None"
             THEN /\ pc' = [pc EXCEPT ![t] = "d_stdio"]
                  /\ _tools_cache' = IF _tools_cache.isNone THEN _tools_cache
                                     ELSE [_tools_cache EXCEPT !.of = "previous"]
                  /\ Silent
                  /\ UNCHANGED << _stdio_context, _read_stream, _write_stream, cur >>
             ELSE /\ ClearStreamsAndCache
                  /\ UNCHANGED _stdio_context
                  /\ DisconnectDone(t, cur[t].name, cur[t].error)
       \/ /\ DisconnectDone(t, cur[t].name, cur[t].error)
          /\ UNCHANGED << clientVars, req >>
    /\ ScopeFollows
    /\ AgentFollows
    /\ UNCHANGED pipelineVars
    /\ UNCHANGED << agent_type, serverVars, calls, resp, ops >>

\* `await self._stdio_context.__aexit__(None, None, None)` returns (the server
\* process has ended) and disconnect() runs to its end, or it raises (the
\* process may or may not have ended) and disconnect() logs and returns.  The
\* exit of a context whose __aenter__ raised finds nothing to close and returns.
DisconnectStdio(t) ==
    /\ pc[t] = "d_stdio"
    /\ \/ /\ _stdio_context' = "None"
          /\ ClearStreamsAndCache
          /\ server' = "none"
          /\ _tools' = << >>
          /\ UNCHANGED session
       \/ /\ _stdio_context = "entered"
          /\ \/ UNCHANGED serverVars
             \/ server = "running" /\ server' = "none" /\ _tools' = << >>
          /\ UNCHANGED clientVars
    /\ DisconnectDone(t, cur[t].name, cur[t].error)
    /\ ScopeFollows
    /\ AgentFollows
    /\ UNCHANGED pipelineVars
    /\ UNCHANGED << agent_type, calls, req, resp, ops >>

\* list_tools(refresh_cache) returns the tools to its caller.
ListToolsReturns(t, refresh_cache, tools) ==
    /\ pc' = [pc EXCEPT ![t] = "idle"]
    /\ cur' = [cur EXCEPT ![t] = NoOp]
    /\ ret' = [NoRet EXCEPT !.task = t, !.op = "list_tools", !.kind = "return",
                            !.tools = tools, !.refresh = refresh_cache]

\* list_tools(refresh_cache) raises Exception(msg) to its caller.
ListToolsRaises(t, refresh_cache, msg) ==
    /\ pc' = [pc EXCEPT ![t] = "idle"]
    /\ cur' = [cur EXCEPT ![t] = NoOp]
    /\ ret' = [NoRet EXCEPT !.task = t, !.op = "list_tools", !.kind = "raise",
                            !.msg = msg, !.refresh = refresh_cache]

\* The cache is refreshed whatever it holds.
NeedsRefreshMutant(cache, refresh_cache) == TRUE

\* `if self._tools_cache is None or refresh_cache:` in list_tools.
NeedsRefresh(cache, refresh_cache) == cache.isNone \/ refresh_cache

\* list_tools(refresh_cache) up to `await self.session.list_tools()` in
\* _refresh_tools_cache, or to its end when it does not refresh.
ListToolsBegin(t, refresh_cache) ==
    /\ CanStart(t)
    /\ ops' = [ops EXCEPT ![t] = @ + 1]
    /\ IF NotConnected(session)
       THEN /\ ListToolsRaises(t, refresh_cache, NotConnectedText)
            /\ UNCHANGED req
       ELSE IF NeedsRefresh(_tools_cache, refresh_cache)
       THEN /\ req' = [req EXCEPT ![t] =
                          [NoReq EXCEPT !.kind = "list",
                                        !.init = (session = "initialized")]]
            /\ pc' = [pc EXCEPT ![t] = "l_list"]
            /\ cur' = [cur EXCEPT ![t] =
                          [NoOp EXCEPT !.name = "list_tools",
                                       !.refresh = refresh_cache]]
            /\ Silent
       ELSE /\ ListToolsReturns(t, refresh_cache, _tools_cache.list)
            /\ UNCHANGED req
    /\ ScopeFollows
    /\ AgentFollows
    /\ UNCHANGED pipelineVars
    /\ UNCHANGED << agent_type, serverVars, calls, clientVars, resp >>

\* _refresh_tools_cache resumes in list_tools, which returns the cache.
ListToolsRefreshed(t) ==
    /\ pc[t] = "l_list"
    /\ Answered(resp[t])
    /\ _tools_cache' = RefreshedCache(req[t], resp[t])
    /\ req' = [req EXCEPT ![t] = NoReq]
    /\ resp' = [resp EXCEPT ![t] = NoResp]
    /\ ListToolsReturns(t, cur[t].refresh, RefreshedCache(req[t], resp[t]).list)
    /\ ScopeFollows
    /\ AgentFollows
    /\ UNCHANGED pipelineVars
    /\ UNCHANGED << agent_type, serverVars, calls, session, _stdio_context,
                    _read_stream, _write_stream, ops >>

\* call_tool(tool_name, arguments) up to `await self.session.call_tool(...)`.
CallToolBegin(t, tool_name, arguments) ==
    /\ CanStart(t)
    /\ ops' = [ops EXCEPT ![t] = @ + 1]
    /\ IF NotConnected(session)
       THEN /\ Raises(t, "call_tool", NotConnectedText)
            /\ UNCHANGED req
       ELSE /\ req' = [req EXCEPT ![t] =
                          [NoReq EXCEPT !.kind = "call", !.tool = tool_name,
                                        !.arguments = arguments,
                                        !.init = (session = "initialized")]]
            /\ pc' = [pc EXCEPT ![t] = "k_call"]
            /\ cur' = [cur EXCEPT ![t] =
                          [NoOp EXCEPT !.name = "call_tool", !.tool = tool_name]]
            /\ Silent
    /\ ScopeFollows
    /\ AgentFollows
    /\ UNCHANGED pipelineVars
    /\ UNCHANGED << agent_type, serverVars, calls, clientVars, resp >>

\* The text is decoded without the fallback to the text.
DecodedMutant(text) == json_loads(text)

\* What call_tool makes of the text of result.content[0]: the decoded value
\* when json.loads accepts it, else the text.
Decoded(text) ==
    IF IsJson(text) THEN json_loads(text) ELSE [type |-> "str", v |-> text]

\* The Exception call_tool raises from its except block.
CallFailedText(tool_name, error) ==
    << "Tool '", tool_name, "' execution failed: " >> \o error

\* How the library hands the answer to call_tool: as a result object (a
\* handler's exception as a result flagged isError, with the exception text
\* as content), or as a raised error.
Deliveries(response) ==
    IF response.kind = "error" THEN { "raise" }
    ELSE IF response.raised THEN { "result", "raise" }
    ELSE { "result" }

\* The except block gives the session up.
CallToolOutcomeMutant(t, tool_name, response, delivery) ==
    IF delivery = "result"
    THEN /\ Returns(t, "call_tool", Decoded(response.text), << >>)
         /\ UNCHANGED clientVars
    ELSE /\ Raises(t, "call_tool", CallFailedText(tool_name, response.text))
         /\ session' = "None"
         /\ UNCHANGED << _stdio_context, _read_stream, _write_stream, _tools_cache >>

\* What call_tool does with the answer that is delivered to it: it returns the
\* content or raises, and touches nothing of the client.
CallToolOutcome(t, tool_name, response, delivery) ==
    /\ IF delivery = "result"
       THEN Returns(t, "call_tool", Decoded(response.text), << >>)
       ELSE Raises(t, "call_tool", CallFailedText(tool_name, response.text))
    /\ UNCHANGED clientVars

\* `await self.session.call_tool(...)` is over and call_tool runs to its end.
CallToolResumed(t) ==
    /\ pc[t] = "k_call"
    /\ Answered(resp[t])
    /\ \E delivery \in Deliveries(resp[t]) :
          CallToolOutcome(t, cur[t].tool, resp[t], delivery)
    /\ req' = [req EXCEPT ![t] = NoReq]
    /\ resp' = [resp EXCEPT ![t] = NoResp]
    /\ ScopeFollows
    /\ AgentFollows
    /\ UNCHANGED pipelineVars
    /\ UNCHANGED << agent_type, serverVars, calls, ops >>

\* ---------------------------------------------------------- specification

Next ==
    \E t \in Tasks :
        \/ ConnectBegin(t)
        \/ __aenter__(t)
        \/ __aexit__(t)
        \/ ConnectSpawn(t)
        \/ ConnectEnter(t)
        \/ ConnectInitialize(t)
        \/ ConnectRefreshed(t)
        \/ DisconnectBegin(t)
        \/ DisconnectSession(t)
        \/ DisconnectStdio(t)
        \/ \E refresh_cache \in BOOLEAN : ListToolsBegin(t, refresh_cache)
        \/ ListToolsRefreshed(t)
        \/ \E tool_name \in RequestedNames :
              CallToolBegin(t, tool_name, Parameters(tool_name).required)
        \/ CallToolResumed(t)
        \/ handle_list_tools(t)
        \/ handle_call_tool(t)
        \/ TransportError(t)

Spec == Init /\ [][Next]_vars

\* ------------------------------------------ the module-level functions
\* The functions of the server module and of pipeline_agents.py, called in the
\* process that imported them (as tests/test_mcp_integration.py calls
\* _register_tools): every variable of the client stays as constructed.

bool(b) == [type |-> "bool", v |-> IF b THEN << "True" >> ELSE << "False" >>]

\* A call of _register_tools() on the registry as it is.
RegisterTools ==
    /\ server = "none"
    /\ _tools' = _register_tools(_tools)
    /\ ret' = [NoRet EXCEPT !.op = "_register_tools", !.kind = "return"]
    /\ UNCHANGED << agent_type, server, calls, clientVars, pc, cur, req, resp, ops,
                    scope, agent,
                    pipelineVars >>

\* run_server() up to `await server.run(...)`: it registers the tools on the
\* registry as it is and starts to serve.
run_server ==
    /\ server = "none"
    /\ _tools' = _register_tools(_tools)
    /\ server' = "running"
    /\ ret' = [NoRet EXCEPT !.op = "run_server", !.kind = "none"]
    /\ UNCHANGED << agent_type, calls, clientVars, pc, cur, req, resp, ops, scope, agent,
                    pipelineVars >>

\* A call of the filter that create_context_aware_tool_filter(agent_type)
\* returned, for the agent of the context and a tool.
ToolFilterCall(agent_name, name) ==
    /\ ret' = [NoRet EXCEPT !.op = "tool_filter", !.kind = "return",
                            !.msg = << agent_name, name >>,
                            !.value = bool(tool_filter(agent_type, name))]
    /\ UNCHANGED << agent_type, serverVars, calls, clientVars, pc, cur, req, resp,
                    ops, scope, agent,
                    pipelineVars >>

\* A tool body, called with its arguments, makes its remote call.
RemoteCall(call) ==
    /\ ret' = [NoRet EXCEPT !.op = "remote_call", !.kind = "none",
                            !.msg = << call.module, call.body >>,
                            !.timeout = call.timeout]
    /\ UNCHANGED << agent_type, serverVars, calls, clientVars, pc, cur, req, resp,
                    ops, scope, agent,
                    pipelineVars >>

ApiInit ==
    /\ agent_type \in FilterAgentTypes
    /\ Fresh

ApiNext ==
    \/ RegisterTools
    \/ run_server
    \/ \E agent_name \in AgentNames, name \in FilterNames :
          ToolFilterCall(agent_name, name)
    \/ \E call \in RemoteCalls : RemoteCall(call)

ApiSpec == ApiInit /\ [][ApiNext]_vars

\* ---------------------------------------------------------------------------
\* BaseAgent (core/base_agent.py): arun() connects a client of its own, runs
\* the agent and disconnects in its finally block.

\* How many times arun() is called.
MaxRuns == 2

\* The task that runs the agent.
ArunTasks == { "task1" }

\* How Runner.run ends.
RunOutcomes == { "return", "raise" }

\* arun() begins: use_mcp_server is set and _mcp_client is None, so
\* _connect_to_mcp_server makes a new EffectiveGiggleMCPClient (all its
\* attributes None) and awaits its connect(). ops counts the client
\* operations of this run.
arun(t) ==
    /\ agent.stage = "none"
    /\ agent.runs < MaxRuns
    /\ pc[t] = "idle"
    /\ agent' = [NoAgent EXCEPT !.task = t, !.stage = "connecting",
                                !._mcp_client = "client",
                                !.runs = agent.runs + 1]
    /\ session' = "None"
    /\ _read_stream' = "None"
    /\ _write_stream' = "None"
    /\ _tools_cache' = CacheNone
    /\ _stdio_context' = "created"
    /\ pc' = [pc EXCEPT ![t] = "c_spawn"]
    /\ cur' = [cur EXCEPT ![t] = [NoOp EXCEPT !.name = "connect"]]
    /\ ops' = [ops EXCEPT ![t] = 0]
    /\ Silent
    /\ UNCHANGED << agent_type, serverVars, calls, req, resp, scope, pipelineVars >>

\* _connect_to_mcp_server, after connect() has returned: list_tools().
arunListTools(t) ==
    /\ agent.task = t
    /\ agent.stage = "connected"
    /\ ListToolsBegin(t, FALSE)

\* call_mcp_tool, called by a coroutine of the run while the agent runs and
\* holds a client.
call_mcp_tool(t, tool_name, arguments) ==
    /\ agent.stage = "running"
    /\ agent._mcp_client # "None"
    /\ CallToolBegin(t, tool_name, arguments)

\* Runner.run returns or raises, and arun's finally block runs: with a client
\* held it awaits _disconnect_from_mcp_server, without one arun ends.
RunnerRunEnds(t, outcome) ==
    /\ agent.task = t
    /\ agent.stage = "running"
    /\ \A u \in Tasks : pc[u] = "idle"
    /\ IF agent._mcp_client # "None"
       THEN /\ DisconnectStart(t, "disconnect", << >>)
            /\ agent' = IF ret'.op = "disconnect"
                        THEN Dropped([agent EXCEPT !.outcome = outcome])
                        ELSE [agent EXCEPT !.stage = "disconnecting",
                                           !.outcome = outcome]
       ELSE /\ agent' = [agent EXCEPT !.stage = "none", !.outcome = outcome]
            /\ Silent
            /\ UNCHANGED << clientVars, pc, cur >>
    /\ UNCHANGED << agent_type, serverVars, calls, req, resp, ops, scope,
                    pipelineVars >>

AgentNext ==
    \/ \E t \in ArunTasks :
          \/ arun(t)
          \/ ConnectSpawn(t)
          \/ ConnectEnter(t)
          \/ ConnectInitialize(t)
          \/ ConnectRefreshed(t)
          \/ arunListTools(t)
          \/ \E outcome \in RunOutcomes : RunnerRunEnds(t, outcome)
          \/ DisconnectSession(t)
          \/ DisconnectStdio(t)
    \/ \E t \in Tasks :
          \/ \E tool_name \in RequestedNames :
                \E arguments \in RequestedArguments(tool_name) :
                   call_mcp_tool(t, tool_name, arguments)
          \/ CallToolResumed(t)
          \/ handle_list_tools(t)
          \/ handle_call_tool(t)
          \/ TransportError(t)

AgentSpec == Init /\ [][AgentNext]_vars

\* ---------------------------------------------------------------------------
\* The pipeline (main.py) around the client: the bodies of the registered
\* Notion tools, run by the server processes of two connections on the one
\* topics database, and on_research_handoff.

\* How many tool bodies one server process runs, and how many handoffs occur.
MaxBodies == 2

MaxHandoffs == 2

\* What the pipeline leaves alone.
clientSideVars ==
    << agent_type, serverVars, calls, clientVars, pc, cur, req, resp, ops, scope,
       agent >>

\* The timeout argument of the requests call at a line of notion_tools.py.
TimeoutAt(line) ==
    (CHOOSE c \in RemoteCalls :
        c.module = "mcp_server/tools/notion_tools.py" /\ c.line = line).timeout

\* The database after a PATCH of a page's Status: changed when the request
\* succeeded, as it was when it failed.
Patched(status, page_id, new_status, ok) ==
    IF ok THEN [status EXCEPT ![page_id] = new_status] ELSE status

\* The pages a query with a Status filter returns, in the database's order.
query_topics_by_status(status) ==
    SelectSeq(Topics, LAMBDA p : notion.status[p] = status)

\* The tool body of server process s ends.
BodyEnds(s, name, kind, value) ==
    ret' = [NoRet EXCEPT !.task = s, !.op = name, !.kind = kind, !.value = value]

\* select_topic_from_backlog up to its update: the query (which raises when
\* the request failed), `return {}` when no page is in the backlog, else the
\* choice of backlog_topics[0].  requests blocks the process, so one process
\* runs one body at a time; the other process runs beside it.
select_topic_from_backlog_query(s, ok) ==
    /\ selector[s].pc = "idle"
    /\ selector[s].n < MaxBodies
    /\ LET backlog_topics == query_topics_by_status("Backlog")
           started == [NoSelector EXCEPT !.timeouts = TimeoutAt(203),
                                         !.n = selector[s].n + 1]
       IN  IF ~ ok
           THEN /\ selector' = [selector EXCEPT ![s] = started]
                /\ BodyEnds(s, "select_topic_from_backlog", "raise", NoValue)
           ELSE IF backlog_topics = << >>
           THEN /\ selector' = [selector EXCEPT ![s] = started]
                /\ BodyEnds(s, "select_topic_from_backlog", "return",
                            [type |-> "dict", v |-> << >>])
           ELSE /\ selector' = [selector EXCEPT ![s] =
                                   [started EXCEPT !.pc = "patch",
                                                   !.topic = backlog_topics[1]]]
                /\ Silent
    /\ UNCHANGED << clientSideVars, notion, handoff >>

\* select_topic_from_backlog from its update on: the PATCH to "Candidate",
\* whose failure is logged only, and the return of the page.
select_topic_from_backlog_update(s, ok) ==
    /\ selector[s].pc = "patch"
    /\ LET page_id == selector[s].topic IN
       /\ notion' = [status |-> Patched(notion.status, page_id, "Candidate", ok),
                     returned |-> notion.returned \cup { page_id }]
       /\ selector' =
             [u \in Sessions |->
                 IF u = s
                 THEN [selector[s] EXCEPT !.pc = "idle",
                                          !.timeouts = @ + TimeoutAt(86)]
                 ELSE IF selector[u].pc = "patch"
                 THEN [selector[u] EXCEPT !.rivals = @ \cup { page_id }]
                 ELSE selector[u]]
       /\ BodyEnds(s, "select_topic_from_backlog", "return",
                   [type |-> "dict", v |-> << page_id >>])
    /\ UNCHANGED << clientSideVars, handoff >>

\* The statuses the researcher sets on the page handed to it.
NewStatuses == { "Research" }

\* update_topic_status: one PATCH; its failure is raised.
update_topic_status(s, topic_id, new_status, ok) ==
    /\ selector[s].pc = "idle"
    /\ selector[s].n < MaxBodies
    /\ topic_id \in notion.returned
    /\ notion' = [notion EXCEPT
                     !.status = Patched(@, topic_id, new_status, ok)]
    /\ selector' = [selector EXCEPT ![s] =
                       [NoSelector EXCEPT !.timeouts = TimeoutAt(148),
                                          !.n = selector[s].n + 1]]
    /\ BodyEnds(s, "update_topic_status", IF ok THEN "return" ELSE "raise",
                IF ok THEN [type |-> "dict", v |-> << topic_id >>] ELSE NoValue)
    /\ UNCHANGED << clientSideVars, handoff >>

\* The other registered bodies, each with one remote call that changes no
\* Status: the tool query_topics_by_status and create_research_page.
OneCallBodies ==
    { [name |-> "query_topics_by_status", line |-> 203],
      [name |-> "create_research_page", line |-> 620] }

OneCallBody(s, body, ok) ==
    /\ selector[s].pc = "idle"
    /\ selector[s].n < MaxBodies
    /\ selector' = [selector EXCEPT ![s] =
                       [NoSelector EXCEPT !.timeouts = TimeoutAt(body.line),
                                          !.n = selector[s].n + 1]]
    /\ BodyEnds(s, body.name, IF ok THEN "return" ELSE "raise", NoValue)
    /\ UNCHANGED << clientSideVars, notion, handoff >>

\* on_research_handoff begins, with the data of a page that was selected: it
\* creates a researcher and awaits the connect() of its MCP server, outside
\* any try block; then Runner.run begins.
on_research_handoff(connects) ==
    /\ handoff.stage \in { "none", "ended" }
    /\ handoff.n < MaxHandoffs
    /\ notion.returned # { }
    /\ handoff' = IF connects
                  THEN [stage |-> "running", server |-> "connected",
                        result |-> "none", n |-> handoff.n + 1]
                  ELSE [stage |-> "ended", server |-> "None",
                        result |-> "raised", n |-> handoff.n + 1]
    /\ Silent
    /\ UNCHANGED << clientSideVars, notion, selector >>

\* Runner.run ends in on_research_handoff.  When it returns, the cleanup loop
\* awaits server.disconnect() if the server object has that attribute, and
\* passes over what it raises; when it raises, the except block returns the
\* failure text.
HandoffRunEnds(outcome, has_disconnect, closes) ==
    /\ handoff.stage = "running"
    /\ handoff' =
          IF outcome = "return"
          THEN [handoff EXCEPT !.stage = "ended", !.result = "completed",
                               !.server = IF has_disconnect /\ closes
                                          THEN "None" ELSE @]
          ELSE [handoff EXCEPT !.stage = "ended", !.result = "failed"]
    /\ Silent
    /\ UNCHANGED << clientSideVars, notion, selector >>

PipelineNext ==
    \/ \E s \in Sessions, ok \in BOOLEAN : select_topic_from_backlog_query(s, ok)
    \/ \E s \in Sessions, ok \in BOOLEAN : select_topic_from_backlog_update(s, ok)
    \/ \E s \in Sessions, topic_id \in Range(Topics), new_status \in NewStatuses,
          ok \in BOOLEAN : update_topic_status(s, topic_id, new_status, ok)
    \/ \E s \in Sessions, body \in OneCallBodies, ok \in BOOLEAN :
          OneCallBody(s, body, ok)
    \/ \E connects \in BOOLEAN : on_research_handoff(connects)
    \/ \E outcome \in RunOutcomes, has_disconnect \in BOOLEAN, closes \in BOOLEAN :
          HandoffRunEnds(outcome, has_disconnect, closes)

PipelineSpec == Init /\ [][PipelineNext]_vars

\* The scheduling the call path relies on: the server handles every call request
\* it is sent (each tool body returns or raises; its remote calls carry a
\* timeout) or the library fails the awaited call, and the event loop resumes a
\* call_tool whose awaited session call is complete.
FairSpec ==
    /\ Spec
    /\ \A t \in Tasks :
          /\ WF_vars(handle_call_tool(t) \/ TransportError(t))
          /\ WF_vars(CallToolResumed(t))

\* ----------------------------------------------------------------- claims

\* The text is the not-found failure for the name.
IsNotFound(text, name) ==
    /\ Len(text) >= 3
    /\ text[1] = "Tool '"
    /\ text[2] = name
    /\ text[3] = "' not found. Available tools: "

\* The step is the server's handling of the call request of task t, from its
\* start.
HandlesCall(t) ==
    /\ req[t].kind = "call"
    /\ resp[t].kind = "none"
    /\ resp'[t].kind \in { "result", "handling" }

\* C1: every call request whose tool name is not in the registry ends in a
\* not-found failure, and its handling invokes no tool body: no call counter
\* moves.
C1_UnknownNameNotFound ==
    [][\A t \in Tasks :
          (HandlesCall(t) /\ req[t].tool \notin Range(_tools))
              => /\ resp'[t].raised
                 /\ IsNotFound(resp'[t].text, req[t].tool)
                 /\ ~ resp'[t].invoked
                 /\ calls' = calls]_vars

\* C1, witness: the running server has answered a call for a name that is not
\* in its registry.
C1_Witness ==
    \E t \in Tasks :
        /\ server = "running"
        /\ req[t].kind = "call"
        /\ req[t].tool \notin Range(_tools)
        /\ resp[t].kind = "result"

\* C2 (as claimed): every call request for a tool the connection's filter does
\* not allow ends in a not-found failure and moves no call counter, also when
\* the tool is registered.
C2_FilteredCallNotFound ==
    [][\A t \in Tasks :
          (HandlesCall(t) /\ ~ tool_filter(agent_type, req[t].tool))
              => /\ resp'[t].raised
                 /\ IsNotFound(resp'[t].text, req[t].tool)
                 /\ calls' = calls]_vars

\* The step is the server's handling of the tool-list request of task t.
HandlesList(t) ==
    /\ req[t].kind = "list"
    /\ resp[t].kind = "none"
    /\ resp'[t].kind = "tools"

\* The registered names the filter of the agent type allows, in registry order.
AllowedOf(agentType, registry) ==
    SelectSeq(registry, LAMBDA n : tool_filter(agentType, n))

\* C3 (as claimed): the tool list served to a connection holds exactly the
\* registered descriptors its filter allows.
C3_ListFiltered ==
    [][\A t \in Tasks :
          HandlesList(t)
              => resp'[t].tools = ListedTools(AllowedOf(agent_type, _tools))]_vars

\* The step is the end of call_tool in task t.
CallToolEnds(t) == pc[t] = "k_call" /\ pc'[t] = "idle"

\* C4 (as claimed): when the tool body raised, the call ends in a failure whose
\* message carries the tool name and the message of what the body raised.
C4_BodyErrorWrapped ==
    [][\A t \in Tasks :
          (CallToolEnds(t) /\ resp[t].invoked /\ resp[t].error # << >>)
              => /\ ret'.kind = "raise"
                 /\ cur[t].tool \in Range(ret'.msg)
                 /\ Range(resp[t].error) \subseteq Range(ret'.msg)]_vars

\* C5 (as claimed): a call whose handling failed on the server (the tool is
\* missing, or its body raised) never ends as a plain return value.
C5_FailureNotReturned ==
    [][\A t \in Tasks :
          (CallToolEnds(t) /\ resp[t].kind = "result" /\ resp[t].raised)
              => ret'.kind = "raise"]_vars

\* The client holds no session, no transport handle and no streams.
Disconnected ==
    /\ ~ is_connected
    /\ _stdio_context = "None"
    /\ _read_stream = "None"
    /\ _write_stream = "None"

\* Task t starts list_tools in this step.
StartsListTools(t) ==
    /\ pc[t] = "idle"
    /\ ops'[t] # ops[t]
    /\ \/ cur'[t].name = "list_tools"
       \/ ret'.task = t /\ ret'.op = "list_tools"

\* Task t starts call_tool in this step.
StartsCallTool(t) ==
    /\ pc[t] = "idle"
    /\ ops'[t] # ops[t]
    /\ \/ cur'[t].name = "call_tool"
       \/ ret'.task = t /\ ret'.op = "call_tool"

\* The operation that has just ended raised NotConnected in task t.
RaisedNotConnected(t) ==
    /\ ret.task = t
    /\ ret.kind = "raise"
    /\ ret.msg = NotConnectedText

\* C6 (as claimed): a connect() that fails raises and leaves the client
\* disconnected, and a list_tools() that follows it fails with NotConnected.
C6_FailedConnectDisconnected ==
    [][/\ (ret'.op = "connect" /\ ret'.kind = "raise") => Disconnected'
       /\ \A t \in Tasks :
             (ret.op = "connect" /\ ret.kind = "raise" /\ StartsListTools(t))
                 => RaisedNotConnected(t)']_vars

\* C7 (as claimed): disconnect() never raises, and when it has returned the
\* session, the transport handle, the streams and the tool cache are cleared.
C7_DisconnectClears ==
    ret.op = "disconnect"
        => /\ ret.kind = "return"
           /\ Disconnected
           /\ _tools_cache = CacheNone

\* The disconnect() that ends in this step in task t began right after another
\* disconnect() had returned, or before any other operation.
SecondOrFirstDisconnect(t) ==
    /\ ret'.task = t
    /\ ret'.op = "disconnect"
    /\ (IF pc[t] = "idle" THEN EndedJustBefore ELSE cur[t].after)
           \in { "disconnect", "first" }

\* C8 (as claimed): disconnect() called a second time in a row, or on a client
\* that never connected, raises nothing and leaves the client disconnected (so
\* that, the first call having left it disconnected, it changes nothing).
C8_DisconnectIdempotent ==
    [][\A t \in Tasks :
          SecondOrFirstDisconnect(t)
              => /\ ret'.kind = "return"
                 /\ Disconnected'
                 /\ _tools_cache' = CacheNone]_vars

\* C9 (as claimed): every tool-list or tool-call request is sent on a session
\* whose initialize handshake has completed.
C9_HandshakeBeforeRequests ==
    \A t \in Tasks : req[t].kind # "none" => req[t].init

\* The client has not connected or is no longer connected: no operation began
\* before, or the operation that has just ended is a disconnect() or a
\* connect() that failed.
NotYetOrNoLongerConnected ==
    \/ EndedJustBefore = "first"
    \/ ret.op = "disconnect"
    \/ ret.op = "connect" /\ ret.kind = "raise"

\* C10 (as claimed): list_tools and call_tool started before connect, after
\* disconnect or after a failed connect raise NotConnected at once, send no
\* request, and change nothing of the client or of the server.
C10_NotConnectedFails ==
    [][\A t \in Tasks :
          ((StartsListTools(t) \/ StartsCallTool(t)) /\ NotYetOrNoLongerConnected)
              => /\ RaisedNotConnected(t)'
                 /\ pc'[t] = "idle"
                 /\ UNCHANGED << req, resp, clientVars, serverVars, calls >>]_vars

\* connect() has returned normally and the session is still held.
Connected ==
    /\ session = "initialized"
    /\ \A u \in Tasks : cur[u].name # "connect"

\* The refresh_cache argument of the list_tools that task t starts in this step.
StartedRefresh(t) == IF pc'[t] = "idle" THEN ret'.refresh ELSE cur'[t].refresh

\* C11: on a connected client the cache is populated (by the one tool-list
\* request of connect), a list_tools() without refresh sends no request and
\* returns the cached list at once, and every list_tools(refresh_cache=True)
\* sends a new tool-list request.
C11_CachedListing ==
    [][/\ Connected' => ~ _tools_cache'.isNone
       /\ \A t \in Tasks :
             (Connected /\ StartsListTools(t))
                 => IF StartedRefresh(t)
                    THEN /\ req[t].kind = "none"
                         /\ req'[t].kind = "list"
                         /\ pc'[t] = "l_list"
                    ELSE /\ req' = req
                         /\ ret'.task = t
                         /\ ret'.kind = "return"
                         /\ ret'.tools = _tools_cache.list]_vars

\* C11, witness: a list_tools() without refresh has returned the four cached
\* tools on a connected client while no request is in flight.
C11_Witness ==
    /\ Connected
    /\ ret.op = "list_tools"
    /\ ret.kind = "return"
    /\ ~ ret.refresh
    /\ Len(ret.tools) = 4
    /\ \A t \in Tasks : req[t].kind = "none"

\* C12 (as claimed): when an `async with client:` block has ended, normally or
\* by its body raising, disconnect() has run and returned None (so the body's
\* exception leaves the block), and neither a session nor a transport nor a
\* server process of the client is left.
C12_ScopedCleanup ==
    scope.stage = "ended"
        => /\ ret.op = "disconnect"
           /\ ret.kind = "return"
           /\ ret.value = NoValue
           /\ Disconnected
           /\ server = "none"

IsServerFailure(text) ==
    /\ Len(text) >= 1
    /\ text[1] \in { "Tool '", "Tool execution failed: " }

\* C14: a call that fails (the name is not found, or the body raised) leaves
\* the connection able to serve: its handling leaves the server running with
\* its registry, and the end of the failed call_tool leaves the session, the
\* transport, the cache, the server and the pending requests of the other tasks
\* as they were.
C14_FailureKeepsServing ==
    [][\A t \in Tasks :
          /\ (HandlesCall(t) /\ resp'[t].raised)
                => /\ server' = "running"
                   /\ UNCHANGED << serverVars, clientVars >>
          /\ (CallToolEnds(t) /\ resp[t].kind = "result" /\ resp[t].raised)
                => /\ UNCHANGED << serverVars, clientVars >>
                   /\ \A u \in Tasks \ { t } :
                         req'[u] = req[u] /\ resp'[u] = resp[u]]_vars

\* C14, witness: a call_tool has just raised a failure of the server, and on the
\* same connection the server can answer the request that is pending.
C14_Witness ==
    /\ ret.op = "call_tool"
    /\ ret.kind = "raise"
    /\ IsServerFailure(SubSeq(ret.msg, 4, Len(ret.msg)))
    /\ Connected
    /\ \E u \in Tasks :
          /\ req[u].kind # "none"
          /\ resp[u].kind = "none"
          /\ ENABLED (handle_list_tools(u) \/ handle_call_tool(u))

\* The kind of failure a text of handle_call_tool states.
FailureKind(text) ==
    IF IsNotFound(text, text[2]) THEN "NotFound"
    ELSE IF text[1] = "Tool execution failed: " THEN "ExecutionFailed"
    ELSE "other"

\* C15 (as claimed): a call whose handling failed on the server ends in a
\* failure raised to the caller that carries the server's failure unchanged
\* behind the tool name, so that its kind, NotFound or ExecutionFailed, is the
\* kind the server gave.
C15_FailureKindKept ==
    [][\A t \in Tasks :
          (CallToolEnds(t) /\ resp[t].kind = "result" /\ resp[t].raised)
              => /\ ret'.kind = "raise"
                 /\ Len(ret'.msg) > 3
                 /\ ret'.msg[2] = req[t].tool
                 /\ SubSeq(ret'.msg, 4, Len(ret'.msg)) = resp[t].text
                 /\ FailureKind(SubSeq(ret'.msg, 4, Len(ret'.msg)))
                        = (IF resp[t].invoked THEN "ExecutionFailed" ELSE "NotFound")]_vars

\* disconnect() has been called while the call_tool of task t was waiting, and
\* is in progress in another task.
DisconnectCalled(t) ==
    \E u \in Tasks \ { t } :
        /\ pc[u] \in { "d_session", "d_stdio" }
        /\ t \in cur[u].during

\* C16 (as claimed): a call_tool that is still waiting when disconnect() is
\* called ends in a failure; it never returns the answer as a result.
C16_DisconnectFailsPending ==
    [][\A t \in Tasks :
          (CallToolEnds(t) /\ DisconnectCalled(t)) => ret'.kind = "raise"]_vars

\* The step registers the tools of register_notion_tools on a registry that
\* holds one of their names already.
RegistersDuplicate ==
    /\ ret'.op \in { "_register_tools", "run_server" }
    /\ \E n \in Range(register_notion_tools) : n \in Range(_tools)

\* C17 (as claimed): registering a name that is already in the registry fails
\* with DuplicateName, leaves the registry as it was, and the server does not
\* start to serve.
C17_DuplicateNameRefused ==
    [][RegistersDuplicate
          => /\ ret'.kind = "raise"
             /\ ret'.msg # << >>
             /\ ret'.msg[1] = "DuplicateName"
             /\ _tools' = _tools
             /\ server' = "none"]_vars

\* C18: the filter made for an agent type that is neither topic_selector nor
\* researcher (an unknown or unspecified role) returns False for every tool it
\* is asked about: the role is shown no tool and may call none.
C18_UnknownRoleDenied ==
    (ret.op = "tool_filter" /\ agent_type \notin { "topic_selector", "researcher" })
        => ret.value = bool(FALSE)

\* C18, witness: the filter of an unknown role has been asked about a registered
\* tool and has refused it.
C18_Witness ==
    /\ agent_type = "unknown"
    /\ ret.op = "tool_filter"
    /\ ret.msg[2] = "select_topic_from_backlog"
    /\ ret.value = bool(FALSE)

\* The names of a tool list, in its order.
NamesOf(tools) == [i \in 1 .. Len(tools) |-> tools[i].name]

\* C19: every tool list the server serves names the registered tools in the
\* order register_notion_tools registered them, each exactly once; so every
\* listing has the same order.
C19_ListInRegistrationOrder ==
    [][\A t \in Tasks :
          HandlesList(t)
              => /\ NamesOf(resp'[t].tools) = register_notion_tools
                 /\ Cardinality(Range(NamesOf(resp'[t].tools))) = Len(resp'[t].tools)]_vars

\* C19, witness: the server has answered a tool-list request with its four
\* tools.
C19_Witness ==
    \E t \in Tasks :
        /\ req[t].kind = "list"
        /\ resp[t].kind = "tools"
        /\ Len(resp[t].tools) = 4

\* The tool of the list is the registered tool of its name, as registered.
AsRegistered(tool) ==
    /\ tool.name \in Range(register_notion_tools)
    /\ tool.description = tool_impl(tool.name).description
    /\ tool.inputSchema = tool_impl(tool.name).schema

\* C20: every tool of a list that list_tools() returns carries the name, the
\* description and the input schema that were registered, get_tool_schema
\* finds that schema, and a list made of a server answer holds every
\* registered tool.
C20_ListedAsRegistered ==
    [][\A t \in Tasks :
          (ret'.task = t /\ ret'.op = "list_tools" /\ ret'.kind = "return")
              => /\ \A i \in 1 .. Len(ret'.tools) :
                       /\ AsRegistered(ret'.tools[i])
                       /\ get_tool_schema(ret'.tools, ret'.tools[i].name)
                              = tool_impl(ret'.tools[i].name).schema
                 /\ (pc[t] = "l_list" /\ resp[t].kind = "tools")
                       => NamesOf(ret'.tools) = register_notion_tools]_vars

\* C20, witness: list_tools() has returned the four tools out of the answer to
\* a refresh, each with its registered schema.
C20_Witness ==
    /\ ret.op = "list_tools"
    /\ ret.kind = "return"
    /\ ret.refresh
    /\ Len(ret.tools) = 4
    /\ \A i \in 1 .. 4 :
          ret.tools[i].inputSchema = tool_impl(register_notion_tools[i]).schema

\* C21: the answer to a call whose body returned carries the result as text: a
\* mapping as JSON text that decodes to the mapping, a string as it is, and
\* any other result (an ordered list) as its string representation.
C21_ResultAsText ==
    [][\A t \in Tasks :
          (HandlesCall(t) /\ resp'[t].invoked /\ ~ resp'[t].raised)
              => LET result == resp'[t].result
                     text == resp'[t].text
                 IN  /\ result \in BodyResults
                     /\ result.type = "dict"
                            => /\ text = json_dumps(result)
                               /\ IsJson(text)
                               /\ json_loads(text) = result
                     /\ result.type = "str" => text = result.v
                     /\ result.type \notin { "dict", "str" } => text = str(result)]_vars

\* C21, witness: the server has answered a call with the JSON text of the
\* mapping that the tool body returned.
C21_Witness ==
    \E t \in Tasks :
        /\ resp[t].kind = "result"
        /\ resp[t].invoked
        /\ resp[t].result.type = "dict"
        /\ resp[t].text = << "{", "topic", "}" >>

\* C22: a call_tool that is handed a textual payload returns the decoded value
\* when the text is valid JSON and the text itself, unchanged, when it is not;
\* a payload that does not decode is returned, it makes no call raise.
C22_DecodeOrRawText ==
    [][\A t \in Tasks :
          (CallToolEnds(t) /\ resp[t].kind = "result")
              => /\ ~ resp[t].raised => ret'.kind = "return"
                 /\ ret'.kind = "return"
                       => ret'.value =
                              IF IsJson(resp[t].text) THEN json_loads(resp[t].text)
                              ELSE [type |-> "str", v |-> resp[t].text]]_vars

\* C22, witness: call_tool has returned, as a string, the text of a body's
\* result that is not valid JSON (the representation of a list).
C22_Witness ==
    /\ ret.op = "call_tool"
    /\ ret.kind = "return"
    /\ ret.value = [type |-> "str", v |-> << "['", "topic", "']" >>]

\* The client is disconnected: it holds no session, and neither a connect() nor
\* a disconnect() is under way.
HoldsNoSession == session = "None" /\ ~ LifecycleBusy

\* C23 (as claimed): the tool cache is unset whenever the client is
\* disconnected, and every list that list_tools() returns on a connected client
\* was cached by a request of the session the client holds, never by one of a
\* session that has been closed.
C23_CacheOfOneSession ==
    /\ [](HoldsNoSession => _tools_cache = CacheNone)
    /\ [][\A t \in Tasks :
             (ret'.task = t /\ ret'.op = "list_tools" /\ ret'.kind = "return"
                  /\ session' # "None")
                 => _tools_cache'.of = "current"]_vars

\* C24: handling a tool-list or a call request, whether it succeeds or fails,
\* leaves the server and its registry (the tools registered at startup) as they
\* were, and nothing of a result stays behind: the answer to a call is made of
\* what its own body returned or raised, or of the registry alone.
C24_HandlingKeepsRegistry ==
    [][\A t \in Tasks :
          (HandlesList(t) \/ HandlesCall(t))
              => /\ UNCHANGED serverVars
                 /\ _tools' = register_notion_tools
                 /\ HandlesCall(t)
                       => resp'[t].text =
                              IF ~ resp'[t].invoked
                              THEN NotFoundText(req[t].tool, _tools)
                              ELSE IF resp'[t].raised
                              THEN ExecutionFailedText(resp'[t].error)
                              ELSE ContentText(resp'[t].result)]_vars

\* C24, witness: the server has handled a call after it had handled a call of
\* another tool and a tool-list request, and its registry is as registered.
C24_Witness ==
    /\ server = "running"
    /\ _tools = register_notion_tools
    /\ calls["select_topic_from_backlog"] = 1
    /\ calls["create_research_page"] = 1
    /\ ~ _tools_cache.isNone
    /\ \E t \in Tasks : resp[t].kind = "result" /\ resp[t].invoked

\* The handling of the call request of task t is under way: the body has been
\* invoked and the answer is not there yet.
Handling(t) == req[t].kind = "call" /\ resp[t].kind = "handling"

C26_RemoteCallsTimeBounded ==
    ret.op = "remote_call" => (ret.timeout > 0 /\ ret.timeout < RequestBudget)

\* The "properties" members of the schemas of notion_tools.py.
PropertiesMembers ==
    { "properties: {}",
      "properties: {topic_id: string, new_status: string enum}",
      "properties: {status: string enum, limit: integer 1..100 default 10}",
      "properties: {topic_id: string, research_data: string}" }

\* The registry holds the tool with a callable body, a description and a
\* schema of type object that has a "properties" member.
RegisteredWhole(name, registry) ==
    /\ name \in Range(registry)
    /\ { "function", "description", "schema" } \subseteq tool_impl(name).keys
    /\ tool_impl(name).description # << >>
    /\ "type: object" \in Range(tool_impl(name).schema)
    /\ Range(tool_impl(name).schema) \cap PropertiesMembers # { }

\* C27 (as claimed): once the server has registered its tools, every tool of
\* register_notion_tools is in the registry with a body, a description and an
\* object schema with properties, and every list that list_tools() returns on
\* a connected client names every one of them.
C27_NotionToolsRegisteredAndListed ==
    /\ [](server = "running"
            => \A n \in Range(register_notion_tools) : RegisteredWhole(n, _tools))
    /\ [][(ret'.op = "list_tools" /\ ret'.kind = "return" /\ Connected')
             => Range(register_notion_tools) \subseteq Range(NamesOf(ret'.tools))]_vars

\* The list_tools of task t ends in this step, its tool-list request over.
ListToolsEnds(t) == pc[t] = "l_list" /\ pc'[t] = "idle"

\* C28 (as claimed): a list_tools() whose tool-list request failed raises to
\* its caller, and so does a list_tools() on a client that holds no session.
C28_ListToolsRaisesOnFailure ==
    [][\A t \in Tasks :
          /\ (ListToolsEnds(t) /\ resp[t].kind # "tools")
                => (ret'.task = t /\ ret'.op = "list_tools" /\ ret'.kind = "raise")
          /\ (StartsListTools(t) /\ NotConnected(session))
                => (ret'.task = t /\ ret'.kind = "raise" /\ ret'.msg = NotConnectedText)]_vars

\* The list the server reports: its registered tools, as the dicts the client
\* makes of them.
ReportedList ==
    [i \in 1 .. Len(register_notion_tools) |->
        tool_dict(ListedTools(register_notion_tools)[i])]

\* C29 (as claimed): every list that list_tools() returns is a list the server
\* reported in the session the client holds, and a tool-list request that
\* failed leaves no empty list in the cache for later calls to return.
C29_ListIsWhatServerReported ==
    [][\A t \in Tasks :
          /\ (ret'.task = t /\ ret'.op = "list_tools" /\ ret'.kind = "return")
                => /\ ret'.tools = ReportedList
                   /\ _tools_cache'.of = "current"
          /\ (pc[t] \in { "c_list", "l_list" } /\ pc'[t] = "idle"
                  /\ resp[t].kind # "tools")
                => ~ (~ _tools_cache'.isNone /\ _tools_cache'.list = << >>)]_vars

\* C30 (as claimed): a call whose body returned a value (a string, a mapping or
\* an ordered list) hands that very value to the caller of call_tool: the
\* decoding of the client undoes the encoding of the server.
C30_RoundTripIsIdentity ==
    [][\A t \in Tasks :
          (CallToolEnds(t) /\ resp[t].kind = "result" /\ resp[t].invoked
               /\ ~ resp[t].raised)
              => /\ ret'.kind = "return"
                 /\ ret'.value = resp[t].result]_vars

\* The names the filter of a role allows, of the names a filter is asked about.
AllowList(agentType) == { n \in FilterNames : tool_filter(agentType, n) }

\* C31 (as claimed): the running server has registered every tool name that the
\* filter of topic_selector or of researcher allows, the tool list served to a
\* role names exactly its allow-list, and no call of a tool the role is
\* allowed ends in a not-found failure.
C31_AllowedToolsRegistered ==
    /\ [](server = "running"
            => \A a \in AgentTypes : AllowList(a) \subseteq Range(_tools))
    /\ [][\A t \in Tasks :
             /\ HandlesList(t)
                   => Range(NamesOf(resp'[t].tools)) = AllowList(agent_type)
             /\ (HandlesCall(t) /\ tool_filter(agent_type, req[t].tool))
                   => ~ IsNotFound(resp'[t].text, req[t].tool)]_vars

\* C32: the filter of topic_selector allows exactly select_topic_from_backlog,
\* update_topic_status and query_topics_by_status; the filter of researcher
\* allows exactly web_search, search_news, extract_content,
\* create_research_page and update_topic_status; update_topic_status is the
\* only name both filters allow.
C32_RoleAllowLists ==
    /\ (ret.op = "tool_filter" /\ agent_type = "topic_selector")
          => ret.value = bool(ret.msg[2] \in { "select_topic_from_backlog",
                                               "update_topic_status",
                                               "query_topics_by_status" })
    /\ (ret.op = "tool_filter" /\ agent_type = "researcher")
          => ret.value = bool(ret.msg[2] \in { "web_search", "search_news",
                                               "extract_content",
                                               "create_research_page",
                                               "update_topic_status" })
    /\ ret.op = "tool_filter"
          => AllowList("topic_selector") \cap AllowList("researcher")
               = { "update_topic_status" }

C32_Witness ==
    /\ ret.op = "tool_filter"
    /\ agent_type = "researcher"
    /\ ret.msg[2] = "update_topic_status"
    /\ ret.value = bool(TRUE)

\* A step in which task t calls connect() (as a caller or entering
\* `async with`) while the client holds an initialized session.
ConnectsAgain(t) ==
    /\ session = "initialized"
    /\ pc[t] = "idle"
    /\ ops'[t] = ops[t] + 1
    /\ \/ ret'.task = t /\ ret'.op = "connect"
       \/ cur'[t].name = "connect"

\* C33: connect() on a client that is connected already returns at once: it
\* starts no server process, no handshake and no tool-list request, and the
\* session, the transport handle and the tool cache stay as they were.
C33_ConnectAgainIsNoOp ==
    [][\A t \in Tasks :
         ConnectsAgain(t)
           => /\ ret'.task = t /\ ret'.op = "connect" /\ ret'.kind = "return"
              /\ pc'[t] = "idle"
              /\ UNCHANGED << clientVars, serverVars, req, resp, calls >>]_vars

C33_Witness ==
    /\ ret.op = "connect"
    /\ ret.kind = "return"
    /\ ret.msg = AlreadyConnectedText
    /\ session = "initialized"
    /\ server = "running"
    /\ ~ _tools_cache.isNone

\* The arguments of the request of task t do not fit the parameters of the
\* registered function it names: one it requires is missing, or one is passed
\* that it does not have.
ArgumentsMismatch(t) ==
    LET p == Parameters(req[t].tool) IN
    /\ req[t].tool \in Range(_tools)
    /\ \/ p.required \ req[t].arguments # { }
       \/ req[t].arguments \ (p.required \cup p.optional) # { }

ConnectionClosed ==
    /\ session = "None"
    /\ _stdio_context = "None"
    /\ server = "none"

\* C35 (as claimed): when arun() has returned or raised, the connection it
\* opened is closed and the agent holds no client and an empty MCP tool list;
\* a later arun() connects a new client that holds nothing of an earlier one.
C35_ArunLeavesNoConnection ==
    /\ []((agent.stage = "none" /\ agent.runs > 0)
            => /\ ConnectionClosed
               /\ agent._mcp_client = "None"
               /\ agent._mcp_tools = << >>)
    /\ [][\A t \in ArunTasks :
             (agent.stage = "none" /\ agent'.stage = "connecting")
                => /\ agent'._mcp_client = "client"
                   /\ session' = "None"
                   /\ _tools_cache' = CacheNone
                   /\ _stdio_context' = "created"]_vars

\* C36: when the connecting of arun() fails (connect() or list_tools()
\* raises), arun() does not end for it: it goes on to Runner.run holding no
\* client and an empty MCP tool list, and the run then ends as Runner.run
\* ends, with no client operation started for it.
C36_ConnectFailureTolerated ==
    [][/\ (/\ agent.stage \in { "connecting", "connected" }
           /\ ret'.task = agent.task
           /\ ret'.op \in { "connect", "list_tools" }
           /\ ret'.kind = "raise")
          => /\ agent'.stage = "running"
             /\ agent'._mcp_client = "None"
             /\ agent'._mcp_tools = << >>
             /\ agent'.outcome = "none"
       /\ (/\ agent.stage = "running"
           /\ agent._mcp_client = "None"
           /\ agent' # agent)
          => /\ agent'.stage = "none"
             /\ agent'.outcome \in RunOutcomes
             /\ agent'._mcp_client = "None"
             /\ agent'._mcp_tools = << >>
             /\ UNCHANGED << pc, cur, clientVars >>]_vars

C36_Witness ==
    /\ ret.op = "connect"
    /\ ret.kind = "raise"
    /\ ret.task = agent.task
    /\ agent.stage = "running"
    /\ agent._mcp_client = "None"
    /\ agent._mcp_tools = << >>

\* The step is the return of a page by the select_topic_from_backlog that
\* server process s runs.
SelectReturns(s) ==
    /\ ret'.task = s
    /\ ret'.op = "select_topic_from_backlog"
    /\ ret'.kind = "return"
    /\ ret'.value.v # << >>

\* C37 (as claimed): whenever select_topic_from_backlog returns a page, the
\* page's Status is Candidate, and no select_topic_from_backlog has returned
\* that page before.
C37_SelectedIsPromoted ==
    [][\A s \in Sessions :
          SelectReturns(s)
              => /\ notion'.status[ret'.value.v[1]] = "Candidate"
                 /\ ret'.value.v[1] \notin notion.returned]_vars

\* C38 (as claimed): two select_topic_from_backlog that run at the same time
\* in the server processes of two sessions do not return the same page: the
\* page one returns is none of those that the other's selection returned
\* while this one ran.
C38_ConcurrentSelectsDiffer ==
    [][\A s \in Sessions :
          SelectReturns(s) => ret'.value.v[1] \notin selector[s].rivals]_vars

\* C39 (as claimed): when on_research_handoff has ended, by returning the
\* text of a completed or of a failed research, the MCP server connection it
\* opened is disconnected.
C39_HandoffDisconnects ==
    (handoff.stage = "ended" /\ handoff.result \in { "completed", "failed" })
        => handoff.server = "None"

\* C40 (as claimed): the timeouts of the remote calls that one invocation of
\* a registered tool body makes one after the other add up to less than the
\* request budget.
C40_TimeoutsWithinBudget ==
    \A s \in Sessions : selector[s].timeouts < RequestBudget

====
